---- MODULE Spec2Model ----
(***************************************************************************)
(* Model of the scheduled spot price pipeline of Code/cli.py:              *)
(*   split_list          the list splitter                                 *)
(*   AssignRegion        availability zone -> region lookup                *)
(*   DynamoDBPrices      the persistence worker thread (start, run, stop)  *)
(*   lambda_handler      the coordinator: download, split, construct,      *)
(*                       start, join, upload                               *)
(*   default_endpoints   the retrieval window                              *)
(*   summary_statistics  the per-type averages                             *)
(* of response_generator of Code/connectors/dynamodb.py,                   *)
(* and of the metadata handler of Code/core/ec2prices.py.                  *)
(*                                                                         *)
(* The specifications share the variables:                                 *)
(*   SpecSplit   split_list applied to bounded lists and segment counts    *)
(*   SpecWorker  one DynamoDBPrices thread on an arbitrary segment, with   *)
(*               a caller that starts it and may call stop()               *)
(*   Spec        lambda_handler with its four threads (FairSpec adds the   *)
(*               scheduler's fairness)                                     *)
(*   SpecKeys    lambda_handler on records that carry their key fields     *)
(*   SpecWindow  default_endpoints at bounded instants and timezones       *)
(*   SpecAgg     summary_statistics on bounded data and type lists         *)
(*   SpecPages   response_generator on bounded sequences of result pages   *)
(*   SpecMeta    the metadata handler invoked repeatedly on one table      *)
(***************************************************************************)
EXTENDS Integers, Sequences, FiniteSets, TLC

(***************************************************************************)
(* Bounds of the model.                                                    *)
(***************************************************************************)
\* longest list given to split_list in SpecSplit
MaxLen == 4
\* largest segment count given to split_list in SpecSplit
MaxN == 5
\* longest segment given to the single worker of SpecWorker
MaxSeg == 3
\* longest price list downloaded by lambda_handler in Spec
MaxPrices == 2
\* number of stop() calls the environment makes in one run
MaxStops == 1
\* longest price list of records with their key fields in SpecKeys
MaxKeyed == 2
\* SpecWindow: the clock runs over the hours 24 .. 24 + MaxHours - 1
MaxHours == 48
\* SpecWindow: largest duration_days given to default_endpoints
MaxDays == 2
\* SpecAgg: most records in the data given to summary_statistics
MaxRecs == 2
\* SpecAgg: most instance types in the list given to summary_statistics
MaxTypes == 2
\* SpecPages: most result pages the table holds for one query
MaxPages == 2
\* SpecPages: most items on one result page
MaxItems == 2
\* SpecMeta: number of invocations of the metadata handler
MaxInvocations == 2
\* SpecMeta: most products in one price file
MaxProducts == 2

(***************************************************************************)
(* Program constants and environment data.                                 *)
(***************************************************************************)
\* lambda_handler splits into four parts and builds db1..db4
PoolSize == 4

Workers == 1..PoolSize

\* elements of the lists of SpecSplit
Elems == {1, 2}

\* AssignRegion.regions: the region names describe_regions returned,
\* each name a sequence of characters
Regions == << <<"e", "1">>, <<"w", "2">> >>

\* TARGET_REGIONS of lambda_handler (environment variable, split on ',')
TARGET_REGIONS == << <<"e", "1">>, <<"s", "1">> >>

\* the availability zones a downloaded record can carry
AZs == { <<"e", "1", "a">>, <<"s", "1", "a">> }

\* a price record (only the field the worker's control flow reads)
PriceRecords == [AvailabilityZone : AZs]

Min(a, b) == IF a < b THEN a ELSE b

\* all sequences over S of length 0..n
SeqsUpTo(S, n) == UNION {[1..k -> S] : k \in 0..n}

(***************************************************************************)
(* split_list                                                              *)
(***************************************************************************)
\* Python's mlist[a:b] for non-negative a, b: clamped to the list, empty
\* when a >= b
Slice(mlist, a, b) == SubSeq(mlist, Min(a, Len(mlist)) + 1, Min(b, Len(mlist)))

\* mutant: the remainder m is ignored, segments are mlist[i*k:(i+1)*k]
split_list_drop(mlist, n) ==
    LET k == Len(mlist) \div n
    IN  [j \in 1..n |-> Slice(mlist, (j - 1) * k, j * k)]

\* mutant: the remainder goes to the last segment instead of the first m
split_list_tail(mlist, n) ==
    LET k == Len(mlist) \div n
    IN  [j \in 1..n |->
            IF j < n THEN Slice(mlist, (j - 1) * k, j * k)
                     ELSE Slice(mlist, (j - 1) * k, Len(mlist))]

\* k, m = divmod(len(mlist), n);
\* (mlist[i*k + min(i, m):(i+1)*k + min(i+1, m)] for i in range(n))
\* segment i of the code is element i+1 of the result
split_list(mlist, n) ==
    LET k == Len(mlist) \div n
        m == Len(mlist) % n
    IN  [j \in 1..n |->
            Slice(mlist, (j - 1) * k + Min(j - 1, m), j * k + Min(j, m))]

RECURSIVE Concat(_)
\* the segments of ss joined in index order
Concat(ss) == IF ss = <<>> THEN <<>> ELSE Head(ss) \o Concat(Tail(ss))

(***************************************************************************)
(* AssignRegion                                                            *)
(***************************************************************************)
\* Python's `x in az` on strings: x occurs as a substring of az
IsSubstring(x, az) ==
    \E i \in 0..(Len(az) - Len(x)) : SubSeq(az, i + 1, i + Len(x)) = x

\* [x for x in self.regions if x in az]
MatchingRegions(az) ==
    SelectSeq(Regions, LAMBDA x : IsSubstring(x, az))

\* assign_region raises IndexError on [0] of an empty list
AssignRaises(az) == MatchingRegions(az) = <<>>

\* assign_region(az) when it does not raise
assign_region(az) == MatchingRegions(az)[1]

(***************************************************************************)
(* State                                                                   *)
(***************************************************************************)
VARIABLES
    sl_mlist,     \* SpecSplit: the list given to split_list
    sl_n,         \* SpecSplit: the segment count given to split_list
    sl_result,    \* SpecSplit: the segments returned
    sl_done,      \* SpecSplit: split_list has been called
    cpc,          \* lambda_handler: position in the handler
    ci,           \* lambda_handler: index of the worker / region at hand
    price_list,   \* lambda_handler: the downloaded records
    uploads,      \* lambda_handler: _completed of each s3upload so far
    put_outcome,  \* s3upload: what the latest put_object answered
    prices,       \* worker: self.prices, its segment
    running,      \* worker: self.running
    wpc,          \* worker: position of the thread
    idx,          \* worker: number of loop iterations begun
    puts,         \* worker: segment positions for which put_item was called
    table,        \* Durable Store: worker, position, RegionName of acked puts
    stopper,      \* caller of stop(): position inside stop()
    nstops,       \* number of stop() calls made
    stopMark,     \* history: Len(puts) when stop() set running = False
    stopReturned, \* history: a stop() call on the worker has returned
    window,       \* SpecWindow: a call of default_endpoints
    agg,          \* SpecAgg: a call of summary_statistics
    pager,        \* SpecPages: a run of response_generator
    meta          \* SpecMeta: the invocations of the metadata lambda_handler

splitVars == <<sl_mlist, sl_n, sl_result, sl_done>>

coordVars == <<cpc, ci, price_list, uploads, put_outcome>>

workerVars == <<prices, running, wpc, idx, puts, table>>

stopVars == <<stopper, nstops, stopMark, stopReturned>>

\* the variables of the specifications of single functions
unitVars == <<sl_mlist, sl_n, sl_result, sl_done, window, agg, pager, meta>>

vars == <<sl_mlist, sl_n, sl_result, sl_done, cpc, ci, price_list, uploads,
          put_outcome, prices, running, wpc, idx, puts, table,
          stopper, nstops, stopMark, stopReturned, window, agg, pager, meta>>

\* thread positions at which run() is over: returned, or left by an
\* uncaught exception
Terminated(w) == wpc[w] \in {"returned", "raised"}

\* no worker object exists
NoWorkers ==
    /\ prices = [w \in Workers |-> <<>>]
    /\ running = [w \in Workers |-> FALSE]
    /\ wpc = [w \in Workers |-> "none"]
    /\ idx = [w \in Workers |-> 0]
    /\ puts = [w \in Workers |-> <<>>]
    /\ table = {}

NoStops ==
    /\ stopper = [w \in Workers |-> "idle"]
    /\ nstops = 0
    /\ stopMark = [w \in Workers |-> -1]
    /\ stopReturned = [w \in Workers |-> FALSE]

NoSplit ==
    /\ sl_mlist = <<>>
    /\ sl_n = 1
    /\ sl_result = <<>>
    /\ sl_done = FALSE

\* put_outcome before any put_object was made
NoOutcome == [error |-> FALSE, status |-> 0]

NoCoord ==
    /\ cpc = "off"
    /\ ci = 0
    /\ price_list = <<>>
    /\ uploads = <<>>
    /\ put_outcome = NoOutcome

\* no call of default_endpoints is modelled
NoWindow == window = [pc |-> "off"]

\* no call of summary_statistics is modelled
NoAgg == agg = [pc |-> "off"]

\* no run of response_generator is modelled
NoPager == pager = [pc |-> "off"]

\* no invocation of the metadata handler is modelled
NoMeta == meta = [pc |-> "off"]

\* none of the single functions is modelled
NoUnits ==
    /\ NoSplit
    /\ NoWindow
    /\ NoAgg
    /\ NoPager
    /\ NoMeta

(***************************************************************************)
(* SpecSplit: split_list on bounded inputs                                 *)
(***************************************************************************)
InitSplit ==
    /\ sl_mlist \in SeqsUpTo(Elems, MaxLen)
    /\ sl_n \in 1..MaxN
    /\ sl_result = <<>>
    /\ sl_done = FALSE
    /\ NoWindow
    /\ NoAgg
    /\ NoPager
    /\ NoMeta
    /\ NoCoord
    /\ NoWorkers
    /\ NoStops

SplitCall ==
    /\ ~sl_done
    /\ sl_result' = split_list(sl_mlist, sl_n)
    /\ sl_done' = TRUE
    /\ UNCHANGED <<sl_mlist, sl_n, coordVars, workerVars, stopVars>>
    /\ UNCHANGED <<window, agg, pager, meta>>

NextSplit == SplitCall

SpecSplit == InitSplit /\ [][NextSplit]_vars

(***************************************************************************)
(* DynamoDBPrices: the persistence worker thread                           *)
(***************************************************************************)
\* mutant: the segment is walked from its end
NextItem_reversed(seg, i) == Len(seg) - i

\* `for item in self.prices`: the position of the item the loop yields
\* after it has yielded i items
NextItem(seg, i) == i + 1

\* `for item in self.prices` has no further item after i items
LoopExhausted(seg, i) == i >= Len(seg)

\* mutant: join() does not wait for the thread
JoinReturns_nowait(w) == TRUE

\* mutant: the wait ends only when run() came to its end, not when an
\* exception ended the thread
JoinReturns_clean(w) == wpc[w] = "returned"

\* threading.Thread.join() on a started thread returns once run() is over
JoinReturns(w) == Terminated(w)

\* start(): self.running = True, then Thread.start() (once per thread)
start(w) ==
    /\ wpc[w] = "init"
    /\ running' = [running EXCEPT ![w] = TRUE]
    /\ wpc' = [wpc EXCEPT ![w] = "loop"]
    /\ UNCHANGED <<prices, idx, puts, table>>

\* run(): the loop takes the next item, assign_region finds a region and
\* put_item is called; the request is now in flight
WorkerPutBegin(w) ==
    /\ wpc[w] = "loop"
    /\ ~LoopExhausted(prices[w], idx[w])
    /\ LET pos == NextItem(prices[w], idx[w])
       IN  /\ ~AssignRaises(prices[w][pos].AvailabilityZone)
           /\ puts' = [puts EXCEPT ![w] = Append(@, pos)]
    /\ idx' = [idx EXCEPT ![w] = @ + 1]
    /\ wpc' = [wpc EXCEPT ![w] = "put"]
    /\ UNCHANGED <<prices, running, table>>
    /\ UNCHANGED <<unitVars, coordVars, stopVars>>

\* run(): the loop takes the next item and assign_region raises IndexError
\* while the Item is built; `except ClientError` does not catch it, so it
\* leaves run() and the thread ends
WorkerLookupFails(w) ==
    /\ wpc[w] = "loop"
    /\ ~LoopExhausted(prices[w], idx[w])
    /\ AssignRaises(prices[w][NextItem(prices[w], idx[w])].AvailabilityZone)
    /\ idx' = [idx EXCEPT ![w] = @ + 1]
    /\ wpc' = [wpc EXCEPT ![w] = "raised"]
    /\ UNCHANGED <<prices, running, puts, table>>
    /\ UNCHANGED <<unitVars, coordVars, stopVars>>

\* run(): put_item returns; the success is logged and then
\* `if not self.running: break`
WorkerPutAck(w) ==
    /\ wpc[w] = "put"
    /\ LET pos == puts[w][Len(puts[w])]
       IN  table' = table \cup
                {[worker |-> w, pos |-> pos,
                  RegionName |-> assign_region(prices[w][pos].AvailabilityZone)]}
    /\ wpc' = [wpc EXCEPT ![w] = IF running[w] THEN "loop" ELSE "returned"]
    /\ UNCHANGED <<prices, running, idx, puts>>
    /\ UNCHANGED <<unitVars, coordVars, stopVars>>

\* run(): put_item raises ClientError; it is logged and the loop continues
\* (the check of self.running is skipped)
WorkerPutError(w) ==
    /\ wpc[w] = "put"
    /\ wpc' = [wpc EXCEPT ![w] = "loop"]
    /\ UNCHANGED <<prices, running, idx, puts, table>>
    /\ UNCHANGED <<unitVars, coordVars, stopVars>>

\* run(): the loop has no further item and run() returns
WorkerReturn(w) ==
    /\ wpc[w] = "loop"
    /\ LoopExhausted(prices[w], idx[w])
    /\ wpc' = [wpc EXCEPT ![w] = "returned"]
    /\ UNCHANGED <<prices, running, idx, puts, table>>
    /\ UNCHANGED <<unitVars, coordVars, stopVars>>

\* stop() on a started thread: self.running = False, then the caller
\* waits in self.join().  One controlling thread makes the stop() calls,
\* so no call begins while another is waiting in join()
StopCall(w) ==
    /\ nstops < MaxStops
    /\ \A v \in Workers : stopper[v] # "join"
    /\ wpc[w] \notin {"none", "init"}
    /\ running' = [running EXCEPT ![w] = FALSE]
    /\ stopper' = [stopper EXCEPT ![w] = "join"]
    /\ nstops' = nstops + 1
    /\ stopMark' = [stopMark EXCEPT ![w] = IF @ = -1 THEN Len(puts[w]) ELSE @]
    /\ UNCHANGED <<prices, wpc, idx, puts, table, stopReturned>>
    /\ UNCHANGED <<unitVars, coordVars>>

\* stop() on a thread that was not started: self.running = False, then
\* self.join() raises RuntimeError
StopUnstarted(w) ==
    /\ nstops < MaxStops
    /\ \A v \in Workers : stopper[v] # "join"
    /\ wpc[w] = "init"
    /\ running' = [running EXCEPT ![w] = FALSE]
    /\ stopper' = [stopper EXCEPT ![w] = "raised"]
    /\ nstops' = nstops + 1
    /\ UNCHANGED <<prices, wpc, idx, puts, table, stopMark, stopReturned>>
    /\ UNCHANGED <<unitVars, coordVars>>

\* stop(): self.join() returns, stdout is flushed and stop() returns
StopReturn(w) ==
    /\ stopper[w] = "join"
    /\ JoinReturns(w)
    /\ stopper' = [stopper EXCEPT ![w] = "returned"]
    /\ stopReturned' = [stopReturned EXCEPT ![w] = TRUE]
    /\ UNCHANGED <<nstops, stopMark>>
    /\ UNCHANGED <<unitVars, coordVars, workerVars>>

\* one step of the thread of worker w
WorkerStep(w) ==
    \/ WorkerPutBegin(w)
    \/ WorkerLookupFails(w)
    \/ WorkerPutAck(w)
    \/ WorkerPutError(w)
    \/ WorkerReturn(w)

(***************************************************************************)
(* SpecWorker: one worker on an arbitrary segment                          *)
(***************************************************************************)
InitWorker ==
    /\ NoUnits
    /\ NoCoord
    /\ NoStops
    /\ prices \in {[w \in Workers |-> IF w = 1 THEN seg ELSE <<>>] :
                     seg \in SeqsUpTo(PriceRecords, MaxSeg)}
    /\ running = [w \in Workers |-> FALSE]
    /\ wpc = [w \in Workers |-> IF w = 1 THEN "init" ELSE "none"]
    /\ idx = [w \in Workers |-> 0]
    /\ puts = [w \in Workers |-> <<>>]
    /\ table = {}

\* the caller of the worker calls start()
CallerStart(w) ==
    /\ cpc = "off"
    /\ start(w)
    /\ UNCHANGED <<unitVars, coordVars, stopVars>>

NextWorker ==
    \/ \E w \in Workers : CallerStart(w)
    \/ \E w \in Workers : WorkerPutBegin(w)
    \/ \E w \in Workers : WorkerLookupFails(w)
    \/ \E w \in Workers : WorkerPutAck(w)
    \/ \E w \in Workers : WorkerPutError(w)
    \/ \E w \in Workers : WorkerReturn(w)
    \/ \E w \in Workers : StopCall(w)
    \/ \E w \in Workers : StopUnstarted(w)
    \/ \E w \in Workers : StopReturn(w)

SpecWorker == InitWorker /\ [][NextWorker]_vars

(***************************************************************************)
(* lambda_handler: the coordinator                                         *)
(***************************************************************************)
RECURSIVE Str(_)
\* str(n) of a natural number: its decimal digits
Str(n) == IF n < 10 THEN <<n>> ELSE Str(n \div 10) \o <<n % 10>>

\* s.startswith(p)
StartsWith(s, p) == Len(s) >= Len(p) /\ SubSeq(s, 1, Len(p)) = p

\* mutant: only the status 200 counts as a success
s3upload_200(outcome) == ~outcome.error /\ outcome.status = 200

\* s3upload: put_object raises ClientError -> False; otherwise
\* True if str(statuscode).startswith('20') else False
s3upload(outcome) ==
    IF outcome.error THEN FALSE
                     ELSE StartsWith(Str(outcome.status), <<2, 0>>)

\* the outcomes of the Blob Store put_object: an HTTP status, or a
\* ClientError
PutObjectOutcomes ==
    {[error |-> FALSE, status |-> 200], [error |-> FALSE, status |-> 204],
     [error |-> FALSE, status |-> 500], [error |-> TRUE, status |-> 0]}

\* mutant: after the first join the handler goes on to the uploads
AfterJoin_first(i) == [cpc |-> "upload", ci |-> 1]

\* db1.join(); db2.join(); db3.join(); db4.join(); then the upload loop
AfterJoin(i) ==
    IF i < PoolSize THEN [cpc |-> "join", ci |-> i + 1]
                    ELSE [cpc |-> "upload", ci |-> 1]

InitHandler ==
    /\ NoUnits
    /\ NoWorkers
    /\ NoStops
    /\ cpc = "download"
    /\ ci = 0
    /\ price_list = <<>>
    /\ uploads = <<>>
    /\ put_outcome = NoOutcome

\* price_list = download_spotprice_data(TARGET_REGIONS)
Download ==
    /\ cpc = "download"
    /\ \E pl \in SeqsUpTo(PriceRecords, MaxPrices) : price_list' = pl
    /\ cpc' = "construct"
    /\ ci' = 1
    /\ UNCHANGED <<uploads, put_outcome, unitVars, workerVars, stopVars>>

\* mutant: every worker is built with prices1
Construct_prices1 ==
    /\ cpc = "construct"
    /\ prices' = [prices EXCEPT ![ci] = split_list(price_list, PoolSize)[1]]
    /\ running' = [running EXCEPT ![ci] = FALSE]
    /\ wpc' = [wpc EXCEPT ![ci] = "init"]
    /\ IF ci < PoolSize
         THEN /\ ci' = ci + 1
              /\ cpc' = "construct"
         ELSE /\ ci' = 1
              /\ cpc' = "start"
    /\ UNCHANGED <<price_list, uploads, put_outcome, idx, puts, table>>
    /\ UNCHANGED <<unitVars, stopVars>>

\* prices1..prices4 = split_list(price_list, 4);
\* db<i> = DynamoDBPrices(..., price_dicts=prices<i>, ...)
Construct ==
    /\ cpc = "construct"
    /\ prices' = [prices EXCEPT ![ci] = split_list(price_list, PoolSize)[ci]]
    /\ running' = [running EXCEPT ![ci] = FALSE]
    /\ wpc' = [wpc EXCEPT ![ci] = "init"]
    /\ IF ci < PoolSize
         THEN /\ ci' = ci + 1
              /\ cpc' = "construct"
         ELSE /\ ci' = 1
              /\ cpc' = "start"
    /\ UNCHANGED <<price_list, uploads, put_outcome, idx, puts, table>>
    /\ UNCHANGED <<unitVars, stopVars>>

\* DynamoDBPrices.__init__ raises (boto3 client, describe_regions or the
\* table resource fails); nothing in lambda_handler catches it
ConstructRaises ==
    /\ cpc = "construct"
    /\ cpc' = "raised"
    /\ UNCHANGED <<ci, price_list, uploads, put_outcome>>
    /\ UNCHANGED <<unitVars, workerVars, stopVars>>

\* db1.start(); db2.start(); db3.start(); db4.start()
StartWorker ==
    /\ cpc = "start"
    /\ start(ci)
    /\ IF ci < PoolSize
         THEN /\ ci' = ci + 1
              /\ cpc' = "start"
         ELSE /\ ci' = 1
              /\ cpc' = "join"
    /\ UNCHANGED <<price_list, uploads, put_outcome, unitVars, stopVars>>

\* db<i>.join()
JoinWorker ==
    /\ cpc = "join"
    /\ JoinReturns(ci)
    /\ cpc' = AfterJoin(ci).cpc
    /\ ci' = AfterJoin(ci).ci
    /\ UNCHANGED <<price_list, uploads, put_outcome>>
    /\ UNCHANGED <<unitVars, workerVars, stopVars>>

\* one pass of `for region in TARGET_REGIONS`: s3upload of the region's
\* price file, whose result is only logged
Upload ==
    /\ cpc = "upload"
    /\ ci <= Len(TARGET_REGIONS)
    /\ \E outcome \in PutObjectOutcomes :
          /\ put_outcome' = outcome
          /\ uploads' = Append(uploads, s3upload(outcome))
    /\ ci' = ci + 1
    /\ UNCHANGED <<cpc, price_list, unitVars, workerVars, stopVars>>

\* return True
HandlerReturn ==
    /\ cpc = "upload"
    /\ ci > Len(TARGET_REGIONS)
    /\ cpc' = "returned"
    /\ UNCHANGED <<ci, price_list, uploads, put_outcome>>
    /\ UNCHANGED <<unitVars, workerVars, stopVars>>

\* the value lambda_handler returns: `return True` is its only return
HandlerResult == TRUE

\* one step of the thread that runs lambda_handler
HandlerStep ==
    \/ Download
    \/ Construct
    \/ ConstructRaises
    \/ StartWorker
    \/ JoinWorker
    \/ Upload
    \/ HandlerReturn

Init == InitHandler

Next ==
    \/ Download
    \/ Construct
    \/ ConstructRaises
    \/ StartWorker
    \/ JoinWorker
    \/ Upload
    \/ HandlerReturn
    \/ \E w \in Workers : WorkerPutBegin(w)
    \/ \E w \in Workers : WorkerLookupFails(w)
    \/ \E w \in Workers : WorkerPutAck(w)
    \/ \E w \in Workers : WorkerPutError(w)
    \/ \E w \in Workers : WorkerReturn(w)
    \/ \E w \in Workers : StopCall(w)
    \/ \E w \in Workers : StopUnstarted(w)
    \/ \E w \in Workers : StopReturn(w)

Spec == Init /\ [][Next]_vars

\* the threads are scheduled by the operating system and every network
\* call returns: no thread that can take a step waits forever
FairSpec ==
    /\ Spec
    /\ WF_vars(HandlerStep)
    /\ \A w \in Workers : WF_vars(WorkerStep(w))
    /\ \A w \in Workers : WF_vars(StopReturn(w))

(***************************************************************************)
(* SpecWindow: default_endpoints                                           *)
(* Time is counted in hours; a naive datetime is the number of hours of    *)
(* its wall clock reading since the epoch's midnight.                      *)
(***************************************************************************)
HoursPerDay == 24

\* the local timezone of the process (hours east of UTC) that
\* datetime.today() reads the clock in
TZOffsets == {-8, 0, 10}

\* the instants (UTC hours) at which default_endpoints is called
Instants == HoursPerDay..(HoursPerDay + MaxHours - 1)

\* the values of duration_days
Durations == -1..MaxDays

\* datetime.datetime.today(): the naive local time at the UTC instant now
today(now, tz) == now + tz

\* dt.date(): the day of a naive datetime
date(dt) == dt \div HoursPerDay

\* datetime.combine(d, datetime.min.time()): midnight of day d
combine_midnight(d) == d * HoursPerDay

\* datetime.timedelta(days=n)
timedelta_days(n) == n * HoursPerDay

\* default_endpoints(duration_days): end is midnight of today(), start is
\* end - timedelta(days=duration_days); nothing is validated
default_endpoints(now, tz, duration_days) ==
    LET end == combine_midnight(date(today(now, tz)))
    IN  [start |-> end - timedelta_days(duration_days), end |-> end]

InitWindow ==
    /\ NoSplit
    /\ NoAgg
    /\ NoPager
    /\ NoMeta
    /\ NoCoord
    /\ NoWorkers
    /\ NoStops
    /\ window \in [pc : {"call"}, now : Instants, tz : TZOffsets,
                    days : Durations, start : {0}, end : {0}]

\* start, end = default_endpoints(duration_days)
DefaultEndpoints ==
    /\ window.pc = "call"
    /\ LET r == default_endpoints(window.now, window.tz, window.days)
       IN  window' = [window EXCEPT !.pc = "returned",
                                    !.start = r.start, !.end = r.end]
    /\ UNCHANGED <<sl_mlist, sl_n, sl_result, sl_done, agg, pager, meta>>
    /\ UNCHANGED <<coordVars, workerVars, stopVars>>

NextWindow == DefaultEndpoints

SpecWindow == InitWindow /\ [][NextWindow]_vars

(***************************************************************************)
(* SpecAgg: summary_statistics and print_ending_summary                    *)
(***************************************************************************)
InstanceTypes == {"m5", "t2"}

\* SpotPrice is a string in the records EC2 returns
PriceStrings == {"0.01", "0.03"}

SpotRecords == [InstanceType : InstanceTypes, SpotPrice : PriceStrings]

\* sequences over S of length at most n without a repeated element
UniqueSeqsUpTo(S, n) ==
    {q \in SeqsUpTo(S, n) : \A a, b \in 1..Len(q) : q[a] = q[b] => a = b}

\* float(s), in hundredths
float(s) == CASE s = "0.01" -> 1 [] s = "0.03" -> 3

\* cur_type: the SpotPrice strings of the records of type itype, in order
cur_type(data, itype) ==
    LET sel == SelectSeq(data, LAMBDA x : x.InstanceType = itype)
    IN  [k \in 1..Len(sel) |-> sel[k].SpotPrice]

InitAgg ==
    /\ NoSplit
    /\ NoWindow
    /\ NoPager
    /\ NoMeta
    /\ NoCoord
    /\ NoWorkers
    /\ NoStops
    /\ \E history \in BOOLEAN :
       \E data \in SeqsUpTo(SpotRecords, MaxRecs) :
       \E instances \in UniqueSeqsUpTo(InstanceTypes, MaxTypes) :
          /\ ~history => data = <<>>
          /\ agg = [pc |-> "loop", hasHistory |-> history, data |-> data,
                    instances |-> instances, i |-> 1, container |-> <<>>]

\* data has no 'SpotPriceHistory': the KeyError is logged and the loop
\* continues with the next type
AggKeyError ==
    /\ agg.pc = "loop"
    /\ agg.i <= Len(agg.instances)
    /\ ~agg.hasHistory
    /\ agg' = [agg EXCEPT !.i = @ + 1]
    /\ UNCHANGED <<sl_mlist, sl_n, sl_result, sl_done, window, pager, meta>>
    /\ UNCHANGED <<coordVars, workerVars, stopVars>>

\* the type has a record: x['SpotPrice'] subscripts the price string x with
\* a string and raises TypeError, which nothing catches
AggTypeError ==
    /\ agg.pc = "loop"
    /\ agg.i <= Len(agg.instances)
    /\ agg.hasHistory
    /\ cur_type(agg.data, agg.instances[agg.i]) # <<>>
    /\ agg' = [agg EXCEPT !.pc = "TypeError"]
    /\ UNCHANGED <<sl_mlist, sl_n, sl_result, sl_done, window, pager, meta>>
    /\ UNCHANGED <<coordVars, workerVars, stopVars>>

\* the type has no record: sum([]) / len([]) raises ZeroDivisionError,
\* which nothing catches
AggZeroDivision ==
    /\ agg.pc = "loop"
    /\ agg.i <= Len(agg.instances)
    /\ agg.hasHistory
    /\ cur_type(agg.data, agg.instances[agg.i]) = <<>>
    /\ agg' = [agg EXCEPT !.pc = "ZeroDivisionError"]
    /\ UNCHANGED <<sl_mlist, sl_n, sl_result, sl_done, window, pager, meta>>
    /\ UNCHANGED <<coordVars, workerVars, stopVars>>

\* print_ending_summary with a type to print: its inner loop reads the
\* global name container, which the module does not define
AggNameError ==
    /\ agg.pc = "loop"
    /\ agg.i > Len(agg.instances)
    /\ agg.instances # <<>>
    /\ agg' = [agg EXCEPT !.pc = "NameError"]
    /\ UNCHANGED <<sl_mlist, sl_n, sl_result, sl_done, window, pager, meta>>
    /\ UNCHANGED <<coordVars, workerVars, stopVars>>

\* print_ending_summary with no type to print, then return True
AggReturn ==
    /\ agg.pc = "loop"
    /\ agg.i > Len(agg.instances)
    /\ agg.instances = <<>>
    /\ agg' = [agg EXCEPT !.pc = "returned"]
    /\ UNCHANGED <<sl_mlist, sl_n, sl_result, sl_done, window, pager, meta>>
    /\ UNCHANGED <<coordVars, workerVars, stopVars>>

NextAgg ==
    \/ AggKeyError
    \/ AggTypeError
    \/ AggZeroDivision
    \/ AggNameError
    \/ AggReturn

SpecAgg == InitAgg /\ [][NextAgg]_vars

(***************************************************************************)
(* SpecPages: response_generator (connectors/dynamodb.py)                  *)
(* The k-th call of client.query returns the k-th result page.             *)
(***************************************************************************)
\* None: the page has no 'LastEvaluatedKey' / the parameters have no
\* 'ExclusiveStartKey'
NoKey == "none"

PageKeys == {"k1", "k2"}

\* items as DynamoDB sends them: {'id': {'N': '1'}}
WireItems == [id : [N : {"1", "2"}]]

\* TypeDeserializer on a number attribute
deserialize_N(str) == CASE str = "1" -> 1 [] str = "2" -> 2

\* inject_attribute_value_output on one item: {'id': {'N': '1'}} -> {'id': 1}
deserialize(item) == [id |-> deserialize_N(item.id.N)]

ResultPages == [Items : SeqsUpTo(WireItems, MaxItems), LastEvaluatedKey : PageKeys \cup {NoKey}]

\* the finite page sequences: the last page carries no LastEvaluatedKey
PageSeqs ==
    {q \in SeqsUpTo(ResultPages, MaxPages) :
        /\ q # <<>>
        /\ q[Len(q)].LastEvaluatedKey = NoKey}

InitPages ==
    /\ NoSplit
    /\ NoWindow
    /\ NoAgg
    /\ NoMeta
    /\ NoCoord
    /\ NoWorkers
    /\ NoStops
    /\ \E q \in PageSeqs :
          pager = [pc |-> "start", pages |-> q, cur |-> 0, j |-> 1,
                   ExclusiveStartKey |-> NoKey, queries |-> <<>>,
                   yielded |-> <<>>]

\* response = client.query(**operation_parameters), before the loop
FirstQuery ==
    /\ pager.pc = "start"
    /\ pager' = [pager EXCEPT !.pc = "loop", !.cur = 1,
                              !.queries = Append(@, pager.ExclusiveStartKey)]
    /\ UNCHANGED <<sl_mlist, sl_n, sl_result, sl_done, window, agg, meta>>
    /\ UNCHANGED <<coordVars, workerVars, stopVars>>

\* 'LastEvaluatedKey' in response: it becomes the ExclusiveStartKey and the
\* page's items are deserialised
TakePage ==
    /\ pager.pc = "loop"
    /\ pager.pages[pager.cur].LastEvaluatedKey # NoKey
    /\ pager' = [pager EXCEPT !.pc = "yield", !.j = 1,
                              !.ExclusiveStartKey =
                                  pager.pages[pager.cur].LastEvaluatedKey]
    /\ UNCHANGED <<sl_mlist, sl_n, sl_result, sl_done, window, agg, meta>>
    /\ UNCHANGED <<coordVars, workerVars, stopVars>>

\* no 'LastEvaluatedKey' and every item is dropped
TakeLastPage_drop ==
    /\ pager.pc = "loop"
    /\ pager.pages[pager.cur].LastEvaluatedKey = NoKey
    /\ pager' = [pager EXCEPT !.pc = "done"]
    /\ UNCHANGED <<sl_mlist, sl_n, sl_result, sl_done, window, agg, meta>>
    /\ UNCHANGED <<coordVars, workerVars, stopVars>>

\* no 'LastEvaluatedKey' in response: more_items = False and the page's
\* items are deserialised
TakeLastPage ==
    /\ pager.pc = "loop"
    /\ pager.pages[pager.cur].LastEvaluatedKey = NoKey
    /\ pager' = [pager EXCEPT !.pc = "yieldLast", !.j = 1]
    /\ UNCHANGED <<sl_mlist, sl_n, sl_result, sl_done, window, agg, meta>>
    /\ UNCHANGED <<coordVars, workerVars, stopVars>>

\* yield item, in either branch
YieldItem ==
    /\ pager.pc \in {"yield", "yieldLast"}
    /\ pager.j <= Len(pager.pages[pager.cur].Items)
    /\ pager' = [pager EXCEPT
                    !.yielded = Append(@, deserialize(pager.pages[pager.cur].Items[pager.j])),
                    !.j = @ + 1]
    /\ UNCHANGED <<sl_mlist, sl_n, sl_result, sl_done, window, agg, meta>>
    /\ UNCHANGED <<coordVars, workerVars, stopVars>>

\* response = client.query(**operation_parameters), after the items of a
\* page with a LastEvaluatedKey
QueryNext ==
    /\ pager.pc = "yield"
    /\ pager.j > Len(pager.pages[pager.cur].Items)
    /\ pager' = [pager EXCEPT !.pc = "loop", !.cur = @ + 1,
                              !.queries = Append(@, pager.ExclusiveStartKey)]
    /\ UNCHANGED <<sl_mlist, sl_n, sl_result, sl_done, window, agg, meta>>
    /\ UNCHANGED <<coordVars, workerVars, stopVars>>

\* the loop ends after the items of the page without LastEvaluatedKey
GeneratorReturn ==
    /\ pager.pc = "yieldLast"
    /\ pager.j > Len(pager.pages[pager.cur].Items)
    /\ pager' = [pager EXCEPT !.pc = "done"]
    /\ UNCHANGED <<sl_mlist, sl_n, sl_result, sl_done, window, agg, meta>>
    /\ UNCHANGED <<coordVars, workerVars, stopVars>>

NextPages ==
    \/ FirstQuery
    \/ TakePage
    \/ TakeLastPage
    \/ YieldItem
    \/ QueryNext
    \/ GeneratorReturn

SpecPages == InitPages /\ [][NextPages]_vars

(***************************************************************************)
(* SpecMeta: the metadata handler of core/ec2prices.py (new_release,       *)
(* dynamodb_write, lambda_handler), invoked one time after the other on    *)
(* one METADATA_TABLE.                                                     *)
(***************************************************************************)
\* 'publicationDate' of a price file, as the file spells it
FileDates == {"d1Z", "d2Z"}

\* the sku of a product
Skus == 1..MaxProducts

\* a price file: its publication date and its products, keyed by sku
PriceFiles == [publicationDate : FileDates, products : UniqueSeqsUpTo(Skus, MaxProducts)]

\* datetime.strptime(string, '%Y-%m-%dT%H:%M:%SZ'), as a day number
strptime(string) == CASE string = "d1Z" -> 1 [] string = "d2Z" -> 2

\* dt.isoformat() of a naive datetime: no 'Z'
isoformat(dt) == CASE dt = 1 -> "d1" [] dt = 2 -> "d2"

\* ParameterSet(rawdata).create(): one record per product, each with the
\* publication date of the file in the form new_release looks up
ParameterSetCreate(rawdata) ==
    [k \in 1..Len(rawdata.products) |->
        [sku |-> rawdata.products[k],
         publicationDate |-> isoformat(strptime(rawdata.publicationDate)),
         attributes |-> [vcpu |-> "2"],
         serviceCode |-> "AmazonEC2"]]

\* process_metadata: None (here <<>>) unless the file has products
process_metadata(rawdata) ==
    IF rawdata.products # <<>> THEN ParameterSetCreate(rawdata) ELSE <<>>

\* dynamodb_write's item_frame of one record: the named keys, the
\* attributes and each attribute again at top level, createDateTime
item_frame(record, now) ==
    [sku |-> record.sku,
     publicationDate |-> record.publicationDate,
     attributes |-> record.attributes,
     vcpu |-> record.attributes.vcpu,
     createDateTime |-> now]

\* METADATA_TABLE.put_item(Item=item): the item replaces the one of its sku
put_item(items, item) ==
    {x \in items : x.sku # item.sku} \cup {item}

\* METADATA_TABLE.query on the index publicationDate
QueryByDate(items, pubdate) ==
    IF \E x \in items : x.publicationDate = pubdate THEN "items" ELSE "empty"

\* new_release answers True whatever the table holds, unless the query fails
new_release_unless_error(outcome) == outcome # "ClientError"

\* new_release: True only when the query succeeded and returned no item
new_release(outcome) == outcome = "empty"

InitMeta ==
    /\ NoSplit
    /\ NoWindow
    /\ NoAgg
    /\ NoPager
    /\ NoCoord
    /\ NoWorkers
    /\ NoStops
    /\ meta = [pc |-> "idle", inv |-> 0,
               file |-> [publicationDate |-> "d1Z", products |-> <<>>],
               release_dt |-> 0, lookup |-> "none", container |-> <<>>,
               i |-> 0, written |-> <<>>, dw_result |-> "none",
               result |-> "none", items |-> {}, completed |-> {},
               repeat |-> FALSE]

\* an invocation begins: get_service_url and publication_date succeed; the
\* publication date of the current file is never older than the last one
MetaInvoke ==
    /\ meta.pc = "idle"
    /\ meta.inv < MaxInvocations
    /\ \E f \in PriceFiles :
          /\ strptime(f.publicationDate) >= meta.release_dt
          /\ meta' = [meta EXCEPT
                        !.pc = "lookup", !.inv = @ + 1, !.file = f,
                        !.release_dt = strptime(f.publicationDate),
                        !.lookup = "none", !.container = <<>>, !.i = 0,
                        !.written = <<>>, !.dw_result = "none",
                        !.result = "none",
                        !.repeat = isoformat(strptime(f.publicationDate))
                                       \in meta.completed]
    /\ UNCHANGED <<sl_mlist, sl_n, sl_result, sl_done, window, agg, pager>>
    /\ UNCHANGED <<coordVars, workerVars, stopVars>>

\* an invocation in which get_service_url or publication_date raises: the
\* handler's except Exception returns False
MetaFetchFails ==
    /\ meta.pc = "idle"
    /\ meta.inv < MaxInvocations
    /\ meta' = [meta EXCEPT
                  !.inv = @ + 1, !.lookup = "none", !.container = <<>>,
                  !.i = 0, !.written = <<>>, !.dw_result = "none",
                  !.result = "False", !.repeat = FALSE]
    /\ UNCHANGED <<sl_mlist, sl_n, sl_result, sl_done, window, agg, pager>>
    /\ UNCHANGED <<coordVars, workerVars, stopVars>>

\* if new_release(release_dt): the handler goes on to the load
MetaNewRelease ==
    /\ meta.pc = "lookup"
    /\ \E outcome \in {QueryByDate(meta.items, isoformat(meta.release_dt)),
                        "ClientError"} :
          /\ new_release(outcome)
          /\ meta' = [meta EXCEPT !.pc = "process", !.lookup = outcome]
    /\ UNCHANGED <<sl_mlist, sl_n, sl_result, sl_done, window, agg, pager>>
    /\ UNCHANGED <<coordVars, workerVars, stopVars>>

\* new_release(release_dt) is False: the handler logs the skip
MetaNotNew ==
    /\ meta.pc = "lookup"
    /\ \E outcome \in {QueryByDate(meta.items, isoformat(meta.release_dt)),
                        "ClientError"} :
          /\ ~new_release(outcome)
          /\ meta' = [meta EXCEPT !.pc = "skipped", !.lookup = outcome]
    /\ UNCHANGED <<sl_mlist, sl_n, sl_result, sl_done, window, agg, pager>>
    /\ UNCHANGED <<coordVars, workerVars, stopVars>>

\* retrieve_raw_data, process_metadata, and a container to load:
\* pool.starmap calls dynamodb_write(*container) once
MetaProcess ==
    /\ meta.pc = "process"
    /\ process_metadata(meta.file) # <<>>
    /\ meta' = [meta EXCEPT !.pc = "write", !.i = 1,
                            !.container = process_metadata(meta.file)]
    /\ UNCHANGED <<sl_mlist, sl_n, sl_result, sl_done, window, agg, pager>>
    /\ UNCHANGED <<coordVars, workerVars, stopVars>>

\* retrieve_raw_data, process_metadata, and no container
MetaNoContainer ==
    /\ meta.pc = "process"
    /\ process_metadata(meta.file) = <<>>
    /\ meta' = [meta EXCEPT !.pc = "nothing"]
    /\ UNCHANGED <<sl_mlist, sl_n, sl_result, sl_done, window, agg, pager>>
    /\ UNCHANGED <<coordVars, workerVars, stopVars>>

\* dynamodb_write: put_item of the record at hand succeeds
WritePut ==
    /\ meta.pc = "write"
    /\ meta.i <= Len(meta.container)
    /\ meta' = [meta EXCEPT
                  !.items = put_item(@, item_frame(meta.container[meta.i], meta.inv)),
                  !.written = Append(@, meta.i),
                  !.i = @ + 1]
    /\ UNCHANGED <<sl_mlist, sl_n, sl_result, sl_done, window, agg, pager>>
    /\ UNCHANGED <<coordVars, workerVars, stopVars>>

\* the ClientError is logged and the loop goes on with the next record
WriteClientError_continue ==
    /\ meta.pc = "write"
    /\ meta.i <= Len(meta.container)
    /\ meta' = [meta EXCEPT !.i = @ + 1]
    /\ UNCHANGED <<sl_mlist, sl_n, sl_result, sl_done, window, agg, pager>>
    /\ UNCHANGED <<coordVars, workerVars, stopVars>>

\* dynamodb_write: put_item of the record at hand raises ClientError,
\* return False
WriteClientError ==
    /\ meta.pc = "write"
    /\ meta.i <= Len(meta.container)
    /\ meta' = [meta EXCEPT !.pc = "loaded", !.dw_result = "False"]
    /\ UNCHANGED <<sl_mlist, sl_n, sl_result, sl_done, window, agg, pager>>
    /\ UNCHANGED <<coordVars, workerVars, stopVars>>

\* dynamodb_write: the loop is over, return True
WriteReturnTrue ==
    /\ meta.pc = "write"
    /\ meta.i > Len(meta.container)
    /\ meta' = [meta EXCEPT
                  !.pc = "loaded", !.dw_result = "True",
                  !.completed = @ \cup {isoformat(meta.release_dt)}]
    /\ UNCHANGED <<sl_mlist, sl_n, sl_result, sl_done, window, agg, pager>>
    /\ UNCHANGED <<coordVars, workerVars, stopVars>>

\* the handler's return True, after the load (whose result it drops),
\* after the skip or without a container
MetaReturn ==
    /\ meta.pc \in {"loaded", "skipped", "nothing"}
    /\ meta' = [meta EXCEPT !.pc = "idle", !.result = "True"]
    /\ UNCHANGED <<sl_mlist, sl_n, sl_result, sl_done, window, agg, pager>>
    /\ UNCHANGED <<coordVars, workerVars, stopVars>>

NextMeta ==
    \/ MetaInvoke
    \/ MetaFetchFails
    \/ MetaNewRelease
    \/ MetaNotNew
    \/ MetaProcess
    \/ MetaNoContainer
    \/ WritePut
    \/ WriteClientError
    \/ WriteReturnTrue
    \/ MetaReturn

SpecMeta == InitMeta /\ [][NextMeta]_vars

(***************************************************************************)
(* SpecKeys: lambda_handler after the download of records that carry the   *)
(* fields of the table key                                                 *)
(***************************************************************************)
\* the downloaded records with the fields run() copies into the Item: two
\* zones of configured regions, two timestamps, two prices
KeyedRecords ==
    [AvailabilityZone : {<<"e", "1", "a">>, <<"w", "2", "b">>},
     Timestamp : {"t1", "t2"},
     SpotPrice : {"0.01", "0.02"}]

\* the key of the Item of run(): partition key Timestamp, sort key
\* SpotPrice (docstring of run)
ItemKey(item) == <<item.Timestamp, item.SpotPrice>>

\* lambda_handler right after price_list = download_spotprice_data(...)
InitKeys ==
    /\ NoUnits
    /\ NoWorkers
    /\ NoStops
    /\ cpc = "construct"
    /\ ci = 1
    /\ price_list \in SeqsUpTo(KeyedRecords, MaxKeyed)
    /\ uploads = <<>>
    /\ put_outcome = NoOutcome

NextKeys ==
    \/ Construct
    \/ ConstructRaises
    \/ StartWorker
    \/ JoinWorker
    \/ Upload
    \/ HandlerReturn
    \/ \E w \in Workers : WorkerPutBegin(w)
    \/ \E w \in Workers : WorkerPutAck(w)
    \/ \E w \in Workers : WorkerPutError(w)
    \/ \E w \in Workers : WorkerReturn(w)
    \/ \E w \in Workers : StopCall(w)
    \/ \E w \in Workers : StopUnstarted(w)
    \/ \E w \in Workers : StopReturn(w)

SpecKeys == InitKeys /\ [][NextKeys]_vars

(***************************************************************************)
(* Properties                                                              *)
(***************************************************************************)
\* the elements of a sequence
Range(seq) == {seq[i] : i \in 1..Len(seq)}

\* put_item was called for position p of worker w's segment
Sent(w, p) == p \in Range(puts[w])

\* the Durable Store acknowledged the put of position p of worker w
Written(w, p) == \E t \in table : t.worker = w /\ t.pos = p

\* the put of position p of worker w is still in flight
InFlight(w, p) == wpc[w] = "put" /\ puts[w][Len(puts[w])] = p

\* the put of position p of worker w ended with a ClientError
Rejected(w, p) == Sent(w, p) /\ ~Written(w, p) /\ ~InFlight(w, p)

\* position p of worker w's segment has an availability zone that no
\* configured region matches
Unmatched(w, p) == AssignRaises(prices[w][p].AvailabilityZone)

\* the acknowledged writes of worker w
WritesOf(tbl, w) == {t \in tbl : t.worker = w}

\* C1: split_list(records, n) yields exactly n segments and the segments
\* joined in index order are the list itself
C1_SplitPartition ==
    sl_done => /\ Len(sl_result) = sl_n
               /\ Concat(sl_result) = sl_mlist

\* a list split into several segments with a remainder
C1_Witness ==
    /\ sl_done
    /\ sl_n > 1
    /\ Len(sl_mlist) > sl_n
    /\ Len(sl_mlist) % sl_n # 0

\* C2: with k, m = divmod(len(records), n), segment i (0-based) has
\* length k+1 when i < m and k otherwise; with n > len(records) the excess
\* segments are empty and the result is still n segments
C2_SegmentLengths ==
    sl_done =>
        LET k == Len(sl_mlist) \div sl_n
            m == Len(sl_mlist) % sl_n
        IN  /\ DOMAIN sl_result = 1..sl_n
            /\ \A j \in 1..sl_n :
                  Len(sl_result[j]) = IF j - 1 < m THEN k + 1 ELSE k
            /\ \A i, j \in 1..sl_n :
                  Len(sl_result[i]) - Len(sl_result[j]) \in {-1, 0, 1}
            /\ sl_n > Len(sl_mlist) =>
                  \A j \in (Len(sl_mlist) + 1)..sl_n : sl_result[j] = <<>>

\* more segments than records: the first segments hold one record each,
\* the excess segments are empty
C2_Witness ==
    /\ sl_done
    /\ Len(sl_mlist) > 1
    /\ sl_n > Len(sl_mlist)
    /\ Len(sl_result[1]) = 1
    /\ sl_result[sl_n] = <<>>

\* C3: once stop() has been requested, no put_item is begun for a record
\* whose put had not begun at the time of the request (stopMark is the
\* number of puts begun, the one in flight included, at that time)
C3_NoNewPutAfterStop ==
    \A w \in Workers : stopMark[w] # -1 => Len(puts[w]) <= stopMark[w]

\* C4: a started worker on which stop() is called ends its thread, and the
\* handler gets past the joins of all workers
C4_StopTerminates ==
    (\E w \in Workers : stopper[w] = "join")
        ~> ((\A w \in Workers : stopMark[w] # -1 => Terminated(w))
              /\ cpc \in {"upload", "returned"})

\* stop() was called on a worker with a record before it had begun any
\* put; the worker is over, stop() has returned and the joins are passed
C4_Witness ==
    \E w \in Workers :
        /\ prices[w] # <<>>
        /\ stopMark[w] = 0
        /\ stopReturned[w]
        /\ Terminated(w)
        /\ cpc \in {"upload", "returned"}

\* C5: a worker on which stop() was requested before it had begun any
\* record sends no record to the Durable Store
C5_ZeroLengthRun ==
    \A w \in Workers : stopMark[w] = 0 => puts[w] = <<>>

\* C6: when stop() has returned, the run() of that worker is over, and
\* from then on the worker calls no put_item and gets no write acknowledged
C6_StopJoins ==
    /\ [](\A w \in Workers : stopReturned[w] => Terminated(w))
    /\ [][\A w \in Workers :
            stopReturned[w] => /\ puts'[w] = puts[w]
                               /\ WritesOf(table', w) = WritesOf(table, w)]_vars

\* stop() returned for a worker that it cut short: some record was sent,
\* later records were not
C6_Witness ==
    \E w \in Workers :
        /\ stopReturned[w]
        /\ wpc[w] = "returned"
        /\ puts[w] # <<>>
        /\ idx[w] < Len(prices[w])

\* C7: no s3upload has begun while a worker thread is not over
C7_JoinAllBarrier ==
    (cpc \in {"upload", "returned"} \/ uploads # <<>>)
        => \A w \in Workers : Terminated(w)

\* an upload has been made after workers wrote records
C7_Witness ==
    /\ uploads # <<>>
    /\ Cardinality({t.worker : t \in table}) > 1

\* C8: a record with an unmatched availability zone that the loop has
\* taken is not sent, does not end the thread with an exception, and when
\* the worker is over without a stop request every matched record after
\* it has been sent
C8_UnmatchedSkipped ==
    \A w \in Workers :
        \A p \in 1..idx[w] :
            Unmatched(w, p) =>
                /\ ~Sent(w, p)
                /\ wpc[w] # "raised"
                /\ (Terminated(w) /\ stopMark[w] = -1) =>
                      \A q \in (p + 1)..Len(prices[w]) :
                          ~Unmatched(w, q) => Sent(w, q)

\* C9: a put rejected with a ClientError is not repeated (no position is
\* sent twice), and when the worker is over without a stop request the
\* loop has taken every record after the rejected one
C9_RejectedNotRetried ==
    \A w \in Workers :
        /\ \A a, b \in 1..Len(puts[w]) : a # b => puts[w][a] # puts[w][b]
        /\ \A p \in 1..Len(prices[w]) :
              (Rejected(w, p) /\ Terminated(w) /\ stopMark[w] = -1) =>
                  idx[w] = Len(prices[w])

\* C10: within one worker the puts follow the order of the segment
C10_SegmentOrder ==
    \A w \in Workers :
        \A a, b \in 1..Len(puts[w]) : a < b => puts[w][a] < puts[w][b]

\* a worker has sent three records, the first of them rejected
C10_Witness ==
    \E w \in Workers :
        /\ Len(puts[w]) = 3
        /\ Rejected(w, 1)
        /\ Written(w, 2)

\* no stop() was called, every record has a matched availability zone and
\* no put was rejected
CleanRun ==
    /\ nstops = 0
    /\ \A w \in Workers :
          \A p \in 1..Len(prices[w]) : ~Unmatched(w, p) /\ ~Rejected(w, p)

C13_ConstructionFailureContained ==
    cpc = "raised" => \A w \in Workers \ {ci} : Terminated(w)

\* C14: the handler returns True exactly when every worker ended without
\* failure and every upload succeeded
C14_ReturnReportsFailure ==
    cpc = "returned" =>
        (HandlerResult <=>
            /\ \A w \in Workers : wpc[w] = "returned"
            /\ \A i \in 1..Len(uploads) : uploads[i])

C12_DisjointKeys ==
    \A t1, t2 \in table :
        t1.worker # t2.worker =>
            ItemKey(prices[t1.worker][t1.pos]) # ItemKey(prices[t2.worker][t2.pos])

\* C16: every window default_endpoints returns has start < end (an input
\* that would give start >= end is rejected, so it returns no window)
C16_WindowOrdered ==
    window.pc = "returned" => window.start < window.end

\* C17: end is midnight of the current UTC day, start is end minus
\* duration_days whole days, and the window of duration_days = 1 is 24
\* hours wide
C17_UtcMidnightWindow ==
    window.pc = "returned" =>
        /\ window.end = (window.now \div HoursPerDay) * HoursPerDay
        /\ window.start = window.end - window.days * HoursPerDay
        /\ window.days = 1 => window.end - window.start = 24

\* summary_statistics has ended, by return or by an exception
AggDone == agg.pc \in {"returned", "TypeError", "ZeroDivisionError", "NameError"}

\* the entries of the summaries for one instance type
EntriesOf(itype) ==
    {e \in 1..Len(agg.container) : agg.container[e].InstanceType = itype}

RECURSIVE SumPrices(_)
SumPrices(group) ==
    IF group = <<>> THEN 0 ELSE float(Head(group)) + SumPrices(Tail(group))

\* C18: when every type of the list has records, the summaries hold exactly
\* one entry per type and its average is the mean of that type's prices
C18_MeanPerType ==
    (/\ AggDone
     /\ agg.hasHistory
     /\ \A k \in 1..Len(agg.instances) :
            cur_type(agg.data, agg.instances[k]) # <<>>)
    => \A k \in 1..Len(agg.instances) :
           LET group == cur_type(agg.data, agg.instances[k])
           IN  /\ Cardinality(EntriesOf(agg.instances[k])) = 1
               /\ \A e \in EntriesOf(agg.instances[k]) :
                      agg.container[e].AvgPrice.num * Len(group)
                          = SumPrices(group) * agg.container[e].AvgPrice.den

\* C19: a type without records is left out of the summaries, the other
\* types are summarised and the aggregation ends without an exception
C19_EmptyGroupOmitted ==
    (/\ AggDone
     /\ agg.hasHistory
     /\ \E k \in 1..Len(agg.instances) :
            cur_type(agg.data, agg.instances[k]) = <<>>)
    => /\ agg.pc = "returned"
       /\ \A k \in 1..Len(agg.instances) :
              (cur_type(agg.data, agg.instances[k]) = <<>>)
                  <=> (EntriesOf(agg.instances[k]) = {})

\* the deserialised items of the first n items of a page
RECURSIVE ItemsUpTo(_, _)
ItemsUpTo(page, n) ==
    IF n <= 0 THEN <<>>
    ELSE Append(ItemsUpTo(page, n - 1), deserialize(page.Items[n]))

\* the deserialised items of the first k pages, in page order
RECURSIVE ItemsOfPages(_, _)
ItemsOfPages(pages, k) ==
    IF k <= 0 THEN <<>>
    ELSE ItemsOfPages(pages, k - 1) \o ItemsUpTo(pages[k], Len(pages[k].Items))

\* C20: response_generator issues one query per page it reads, each with
\* the LastEvaluatedKey of the page before as ExclusiveStartKey, yields
\* every item of these pages once and in page order, and ends at the first
\* page without LastEvaluatedKey, with no query after it
C20_Pagination ==
    pager.pc # "off" =>
        /\ Len(pager.queries) = pager.cur
        /\ \A k \in 1..Len(pager.queries) :
              pager.queries[k] =
                  IF k = 1 THEN NoKey ELSE pager.pages[k - 1].LastEvaluatedKey
        /\ \A k \in 1..(pager.cur - 1) : pager.pages[k].LastEvaluatedKey # NoKey
        /\ pager.pc \in {"start", "loop"} =>
              pager.yielded = ItemsOfPages(pager.pages, pager.cur - 1)
        /\ pager.pc \in {"yield", "yieldLast"} =>
              pager.yielded = ItemsOfPages(pager.pages, pager.cur - 1)
                                \o ItemsUpTo(pager.pages[pager.cur], pager.j - 1)
        /\ pager.pc = "done" =>
              /\ pager.pages[pager.cur].LastEvaluatedKey = NoKey
              /\ pager.yielded = ItemsOfPages(pager.pages, pager.cur)

\* two pages with items were read to the end
C20_Witness ==
    /\ pager.pc = "done"
    /\ pager.cur = 2
    /\ pager.queries = <<NoKey, "k2">>
    /\ Len(pager.pages[1].Items) = 2
    /\ pager.pages[2].Items # <<>>

\* the item dynamodb_write puts for its k-th argument in this invocation
ItemOf(k) == item_frame(meta.container[k], meta.inv)

\* C22: dynamodb_write puts its records in argument order; at the first
\* ClientError it returns False, the records before it are in the table,
\* the failing record and those after it are not; it returns True only
\* when every record was put
C22_WriteStopsAtFirstError ==
    meta.pc \in {"write", "loaded", "idle"} =>
        /\ \A k \in 1..Len(meta.written) : meta.written[k] = k
        /\ meta.pc = "write" => Len(meta.written) = meta.i - 1
        /\ meta.dw_result = "False" =>
              /\ Len(meta.written) < Len(meta.container)
              /\ \A k \in 1..Len(meta.container) :
                    (ItemOf(k) \in meta.items) <=> (k <= Len(meta.written))
        /\ meta.dw_result = "True" =>
              /\ Len(meta.written) = Len(meta.container)
              /\ \A k \in 1..Len(meta.container) : ItemOf(k) \in meta.items

\* the second of two records was refused
C22_Witness ==
    /\ meta.dw_result = "False"
    /\ Len(meta.container) = 2
    /\ meta.written = <<1>>

\* a load for the publication date of the current file has begun or ended
MetaLoading == meta.pc \in {"process", "write", "loaded", "nothing"}

====
